---- MODULE Spec2Model ----
(***************************************************************************)
(* Model of task::Sequence (src/src/Sequence.cc): the indentation pass     *)
(* indent() and the recursive-descent syntax check check_syntax() over a   *)
(* flat list of typed steps.                                               *)
(*                                                                         *)
(* A step is a record [type, indentation_level].  indent() is modelled one *)
(* loop iteration per action so that the running depth counter and the     *)
(* error recorded so far are visible in every intermediate state.          *)
(* check_syntax() is a const member that either returns or throws; it is   *)
(* modelled by recursive operators that compute its outcome, and by one    *)
(* action that stores that outcome in `result`.                            *)
(*                                                                         *)
(* Strings built with gul14::cat() are modelled as the tuple of the pieces *)
(* that are concatenated, so that a step position inside a message stays   *)
(* visible.  The empty string is the empty tuple.                          *)
(***************************************************************************)
EXTENDS Integers, Sequences, FiniteSets, TLC

VARIABLES steps_, indentation_error_, pc, step_index, level, result,
          indented, prior_error

vars == <<steps_, indentation_error_, pc, step_index, level, result,
          indented, prior_error>>

---------------------------------------------------------------------------
(* Bounds of the model *)

\* longest sequence that is built up step by step from the empty sequence
MaxLen == 4

\* number of steps that may be appended to a deeply nested sequence
MaxTail == 2

---------------------------------------------------------------------------
(* Step types and constants *)

type_action == "type_action"
type_if == "type_if"
type_elseif == "type_elseif"
type_else == "type_else"
type_while == "type_while"
type_try == "type_try"
type_catch == "type_catch"
type_end == "type_end"

StepTypes ==
    {type_action, type_if, type_elseif, type_else, type_while, type_try,
     type_catch, type_end}

max_indentation_level == 20

\* std::string::empty() / clear()
EmptyString == <<>>

\* Step{ type }: a freshly constructed step has indentation level 0
Step(type) == [type |-> type, indentation_level |-> 0]

StepsOf(types) == [k \in 1..Len(types) |-> Step(types[k])]

TypesOf(steps) == [k \in 1..Len(steps) |-> steps[k].type]

LevelsOf(steps) == [k \in 1..Len(steps) |-> steps[k].indentation_level]

Repeat(type, n) == [k \in 1..n |-> type]

---------------------------------------------------------------------------
(* Sequence::indent(), src/src/Sequence.cc lines 59-129 *)

MsgNotNested == <<"Steps are not nested correctly">>

MsgEveryEnd ==
    <<"Steps are not nested correctly (every END must correspond to one IF, TRY, or WHILE)">>

MsgTooDeep ==
    <<"Steps are nested too deeply (max. level: ", max_indentation_level, ")">>

MsgOneEnd ==
    <<"Steps are not nested correctly (there must be one END for each IF, TRY, WHILE)">>

\* StepLevelFor with the "- 1" of CATCH/ELSE/ELSEIF forgotten
StepLevelFor_clause_not_dedented(type, lvl) ==
    CASE type = type_action -> lvl
      [] type \in {type_if, type_try, type_while} -> lvl
      [] type \in {type_catch, type_else, type_elseif} -> lvl
      [] type = type_end -> lvl - 1

\* StepLevelFor with an END step left at the level of the block it closes
StepLevelFor_end_not_dedented(type, lvl) ==
    CASE type = type_action -> lvl
      [] type \in {type_if, type_try, type_while} -> lvl
      [] type \in {type_catch, type_else, type_elseif} -> lvl - 1
      [] type = type_end -> lvl

\* the switch, lines 69-89: the level computed for the step
StepLevelFor(type, lvl) ==
    CASE type = type_action -> lvl
      [] type \in {type_if, type_try, type_while} -> lvl
      [] type \in {type_catch, type_else, type_elseif} -> lvl - 1
      [] type = type_end -> lvl - 1

\* the switch, lines 69-89: the depth counter after the step
LevelAfter(type, lvl) ==
    CASE type = type_action -> lvl
      [] type \in {type_if, type_try, type_while} -> lvl + 1
      [] type \in {type_catch, type_else, type_elseif} -> lvl
      [] type = type_end -> lvl - 1

\* lines 91-97: clamping of the step level
ClampStepLevel(step_level) == IF step_level < 0 THEN 0 ELSE step_level

\* ErrorAfterStepLevel with the recording of the error left out
ErrorAfterStepLevel_not_recorded(step_level, err) == err

\* lines 91-97: the error recorded for a negative step level
ErrorAfterStepLevel(step_level, err) ==
    IF step_level < 0 /\ err = EmptyString THEN MsgNotNested ELSE err

\* ClampLevel without the upper clamp
ClampLevel_no_upper_clamp(lvl) == IF lvl < 0 THEN 0 ELSE lvl

\* lines 101-118: clamping of the depth counter
ClampLevel(lvl) ==
    IF lvl < 0 THEN 0
    ELSE IF lvl > max_indentation_level THEN max_indentation_level
    ELSE lvl

\* ErrorAfterLevel with >= in place of > in the test against the maximum
ErrorAfterLevel_max_excluded(lvl, err) ==
    IF lvl < 0
    THEN (IF err = EmptyString THEN MsgEveryEnd ELSE err)
    ELSE IF lvl >= max_indentation_level
    THEN (IF err = EmptyString THEN MsgTooDeep ELSE err)
    ELSE err

\* lines 101-118: the error recorded for a depth out of range
ErrorAfterLevel(lvl, err) ==
    IF lvl < 0
    THEN (IF err = EmptyString THEN MsgEveryEnd ELSE err)
    ELSE IF lvl > max_indentation_level
    THEN (IF err = EmptyString THEN MsgTooDeep ELSE err)
    ELSE err

\* ErrorAfterLoop without the test that no error has been recorded yet
ErrorAfterLoop_overwrites(lvl, err) == IF lvl # 0 THEN MsgOneEnd ELSE err

\* ErrorAfterLoop with the final test of the depth left out
ErrorAfterLoop_not_recorded(lvl, err) == err

\* lines 121-128: the error recorded for a non-zero final depth
ErrorAfterLoop(lvl, err) ==
    IF lvl # 0 /\ err = EmptyString THEN MsgOneEnd ELSE err

\* Step::set_indentation_level(): accepts only levels 0..max_indentation_level
LevelAccepted(step_level) ==
    step_level >= 0 /\ step_level <= max_indentation_level

\* IndentBegin without indentation_error_.clear()
IndentBegin_error_not_cleared ==
    /\ pc = "idle"
    /\ pc' = "indent"
    /\ level' = 0
    /\ indentation_error_' = indentation_error_
    /\ step_index' = 1
    /\ prior_error' = indentation_error_
    /\ result' = [status |-> "not_run", what |-> EmptyString]
    /\ UNCHANGED <<steps_, indented>>

\* lines 61-63: entry of indent()
IndentBegin ==
    /\ pc = "idle"
    /\ pc' = "indent"
    /\ level' = 0
    /\ indentation_error_' = EmptyString
    /\ step_index' = 1
    /\ prior_error' = indentation_error_
    /\ result' = [status |-> "not_run", what |-> EmptyString]
    /\ UNCHANGED <<steps_, indented>>

\* lines 65-119: one iteration of the loop over steps_
IndentStep ==
    /\ pc = "indent"
    /\ step_index <= Len(steps_)
    /\ LET type == steps_[step_index].type
           raw_step_level == StepLevelFor(type, level)
           raw_level == LevelAfter(type, level)
           step_level == ClampStepLevel(raw_step_level)
           err1 == ErrorAfterStepLevel(raw_step_level, indentation_error_)
       IN  IF LevelAccepted(step_level)
           THEN /\ steps_' = [steps_ EXCEPT
                                ![step_index].indentation_level = step_level]
                /\ level' = ClampLevel(raw_level)
                /\ indentation_error_' = ErrorAfterLevel(raw_level, err1)
                /\ step_index' = step_index + 1
                /\ pc' = "indent"
           ELSE \* set_indentation_level() throws inside a noexcept function
                /\ pc' = "terminated"
                /\ indentation_error_' = err1
                /\ UNCHANGED <<steps_, level, step_index>>
    /\ UNCHANGED <<result, indented, prior_error>>

\* lines 121-129: after the loop
IndentEnd ==
    /\ pc = "indent"
    /\ step_index > Len(steps_)
    /\ indentation_error_' = ErrorAfterLoop(level, indentation_error_)
    /\ pc' = "idle"
    /\ indented' = TRUE
    /\ UNCHANGED <<steps_, step_index, level, result, prior_error>>

---------------------------------------------------------------------------
(* Sequence::check_syntax(), src/src/Sequence.cc lines 39-45 and 131-258 *)

\* a call that returned: `next` is the iterator it returned
Returned(next) == [ok |-> TRUE, next |-> next, what |-> EmptyString]

\* a call left by `throw Error(what)`
Thrown(what) == [ok |-> FALSE, next |-> 0, what |-> what]

\* lines 254-258: cat("[syntax check] Step ", it - steps_.begin() + 1, ": ", msg)
throw_syntax_error_for_step(it, msg) ==
    Thrown(<<"[syntax check] Step ", (it - 1) + 1, ": ", msg>>)

\* detail::find_end_of_indented_block(begin, end, min_indentation_level):
\* the first step in [begin, end) whose level is below min_indentation_level,
\* or end if there is none
find_end_of_indented_block(begin, end, min_indentation_level) ==
    LET below == {k \in begin..(end - 1) :
                    steps_[k].indentation_level < min_indentation_level}
    IN  IF below = {} THEN end
        ELSE CHOOSE k \in below : \A j \in below : k <= j

\* line 184: the condition under which check_syntax_for_while throws
WhileEndMissing(block_end, end) ==
    block_end = end \/ steps_[block_end].type # type_end

\* line 198: the condition under which check_syntax_for_try throws
\* "TRY without matching CATCH"
TryCatchMissing(it_catch, end) ==
    it_catch = end \/ steps_[it_catch].type # type_catch

\* TryEndMissing without the test of the type of the boundary step
TryEndMissing_type_not_tested(it_catch_block_end, end) ==
    it_catch_block_end = end

\* line 206: the condition under which check_syntax_for_try throws
\* "TRY...CATCH without matching END"
TryEndMissing(it_catch_block_end, end) ==
    it_catch_block_end = end \/ steps_[it_catch_block_end].type # type_end

\* IfBoundary with the else_found test of the ELSE IF case left out
IfBoundary_elseif_not_tested(type, else_found) ==
    CASE type = type_elseif -> "next_block"
      [] type = type_else ->
           IF else_found THEN "throw_duplicate_else" ELSE "next_block_else"
      [] type = type_end -> "return"
      [] OTHER -> "throw_unfinished"

\* IfBoundary with the else_found test of the ELSE case left out
IfBoundary_else_not_tested(type, else_found) ==
    CASE type = type_elseif ->
           IF else_found THEN "throw_elseif_after_else" ELSE "next_block"
      [] type = type_else -> "next_block_else"
      [] type = type_end -> "return"
      [] OTHER -> "throw_unfinished"

\* lines 230-248: the switch over the type of the boundary step of an IF
\* block; the value names the branch that is taken
IfBoundary(type, else_found) ==
    CASE type = type_elseif ->
           IF else_found THEN "throw_elseif_after_else" ELSE "next_block"
      [] type = type_else ->
           IF else_found THEN "throw_duplicate_else" ELSE "next_block_else"
      [] type = type_end -> "return"
      [] OTHER -> "throw_unfinished"

RECURSIVE check_syntax_range(_, _)
RECURSIVE check_syntax_for_while(_, _)
RECURSIVE check_syntax_for_try(_, _)
RECURSIVE check_syntax_for_if(_, _)
RECURSIVE check_syntax_if_loop(_, _, _, _)

\* lines 131-176: check_syntax(begin, end); positions are 1-based indices
\* into steps_, `end` is one past the last step of the range
check_syntax_range(begin, end) ==
    IF ~(begin < end) THEN Returned(begin)
    ELSE LET type == steps_[begin].type IN
         CASE type = type_while ->
                LET r == check_syntax_for_while(begin, end)
                IN  IF r.ok THEN check_syntax_range(r.next, end) ELSE r
           [] type = type_try ->
                LET r == check_syntax_for_try(begin, end)
                IN  IF r.ok THEN check_syntax_range(r.next, end) ELSE r
           [] type = type_if ->
                LET r == check_syntax_for_if(begin, end)
                IN  IF r.ok THEN check_syntax_range(r.next, end) ELSE r
           [] type = type_action -> check_syntax_range(begin + 1, end)
           [] type = type_catch ->
                throw_syntax_error_for_step(begin, "CATCH without matching TRY")
           [] type = type_elseif ->
                throw_syntax_error_for_step(begin, "ELSE IF without matching IF")
           [] type = type_else ->
                throw_syntax_error_for_step(begin, "ELSE without matching IF")
           [] type = type_end ->
                throw_syntax_error_for_step(begin,
                                            "END without matching IF/WHILE/TRY")
           [] OTHER ->
                throw_syntax_error_for_step(begin, "Unexpected step type")

\* check_syntax_for_while returning the position two steps after block_end
check_syntax_for_while_skips_a_step(begin, end) ==
    LET block_end == find_end_of_indented_block(
                         begin + 1, end, steps_[begin].indentation_level + 1)
    IN  IF WhileEndMissing(block_end, end)
        THEN throw_syntax_error_for_step(begin, "WHILE without matching END")
        ELSE LET body == check_syntax_range(begin + 1, block_end)
             IN  IF body.ok THEN Returned(block_end + 2) ELSE body

\* check_syntax_for_while with the body checked before the boundary is tested
check_syntax_for_while_body_first(begin, end) ==
    LET block_end == find_end_of_indented_block(
                         begin + 1, end, steps_[begin].indentation_level + 1)
        body == check_syntax_range(begin + 1, block_end)
    IN  IF ~body.ok THEN body
        ELSE IF WhileEndMissing(block_end, end)
        THEN throw_syntax_error_for_step(begin, "WHILE without matching END")
        ELSE Returned(block_end + 1)

\* lines 178-190
check_syntax_for_while(begin, end) ==
    LET block_end == find_end_of_indented_block(
                         begin + 1, end, steps_[begin].indentation_level + 1)
    IN  IF WhileEndMissing(block_end, end)
        THEN throw_syntax_error_for_step(begin, "WHILE without matching END")
        ELSE LET body == check_syntax_range(begin + 1, block_end)
             IN  IF body.ok THEN Returned(block_end + 1) ELSE body

\* check_syntax_for_try with the block level of the top level (1) in place
\* of the level of the TRY step plus one
check_syntax_for_try_top_level_only(begin, end) ==
    LET it_catch == find_end_of_indented_block(begin + 1, end, 1)
    IN  IF TryCatchMissing(it_catch, end)
        THEN throw_syntax_error_for_step(begin, "TRY without matching CATCH")
        ELSE
        LET try_block == check_syntax_range(begin + 1, it_catch)
        IN  IF ~try_block.ok THEN try_block
            ELSE
            LET it_catch_block_end ==
                    find_end_of_indented_block(it_catch + 1, end, 1)
            IN  IF TryEndMissing(it_catch_block_end, end)
                THEN throw_syntax_error_for_step(
                         begin, "TRY...CATCH without matching END")
                ELSE LET catch_block ==
                             check_syntax_range(it_catch + 1,
                                                it_catch_block_end)
                     IN  IF catch_block.ok
                         THEN Returned(it_catch_block_end + 1)
                         ELSE catch_block

\* lines 192-212
check_syntax_for_try(begin, end) ==
    LET it_catch == find_end_of_indented_block(
                        begin + 1, end, steps_[begin].indentation_level + 1)
    IN  IF TryCatchMissing(it_catch, end)
        THEN throw_syntax_error_for_step(begin, "TRY without matching CATCH")
        ELSE
        LET try_block == check_syntax_range(begin + 1, it_catch)
        IN  IF ~try_block.ok THEN try_block
            ELSE
            LET it_catch_block_end ==
                    find_end_of_indented_block(
                        it_catch + 1, end,
                        steps_[begin].indentation_level + 1)
            IN  IF TryEndMissing(it_catch_block_end, end)
                THEN throw_syntax_error_for_step(
                         begin, "TRY...CATCH without matching END")
                ELSE LET catch_block ==
                             check_syntax_range(it_catch + 1,
                                                it_catch_block_end)
                     IN  IF catch_block.ok
                         THEN Returned(it_catch_block_end + 1)
                         ELSE catch_block

\* lines 220-251: one iteration of the while (true) loop of
\* check_syntax_for_if, with the loop variables as parameters
check_syntax_if_loop(begin, end, else_found, it_block_statement) ==
    LET it == find_end_of_indented_block(
                  it_block_statement + 1, end,
                  steps_[begin].indentation_level + 1)
    IN  IF it = end
        THEN throw_syntax_error_for_step(begin, "IF without matching END")
        ELSE
        LET block == check_syntax_range(it_block_statement + 1, it)
            branch == IfBoundary(steps_[it].type, else_found)
        IN  IF ~block.ok THEN block
            ELSE
            CASE branch = "throw_elseif_after_else" ->
                   throw_syntax_error_for_step(it, "ELSE IF after ELSE clause")
              [] branch = "next_block" ->
                   check_syntax_if_loop(begin, end, else_found, it)
              [] branch = "throw_duplicate_else" ->
                   throw_syntax_error_for_step(it, "Duplicate ELSE clause")
              [] branch = "next_block_else" ->
                   check_syntax_if_loop(begin, end, TRUE, it)
              [] branch = "return" -> Returned(it + 1)
              [] OTHER ->
                   throw_syntax_error_for_step(it, "Unfinished IF construct")

\* lines 214-252
check_syntax_for_if(begin, end) ==
    check_syntax_if_loop(begin, end, FALSE, begin)

\* check_syntax() without the test of indentation_error_
check_syntax_error_not_tested == check_syntax_range(1, Len(steps_) + 1)

\* lines 39-45: the public check_syntax()
check_syntax ==
    IF indentation_error_ # EmptyString
    THEN Thrown(indentation_error_)
    ELSE check_syntax_range(1, Len(steps_) + 1)

\* a call of check_syntax() by the owner of the sequence; the outcome
\* (normal return or the Error thrown) is kept in `result`
CheckSyntax ==
    /\ pc = "idle"
    /\ LET r == check_syntax
       IN  result' = IF r.ok
                     THEN [status |-> "returned", what |-> EmptyString]
                     ELSE [status |-> "thrown", what |-> r.what]
    /\ UNCHANGED <<steps_, indentation_error_, pc, step_index, level,
                   indented, prior_error>>

---------------------------------------------------------------------------
(* Populating the sequence *)

\* sequences of the test suite, written with one letter per step
A == type_action
I == type_if
EI == type_elseif
EL == type_else
W == type_while
T == type_try
C == type_catch
E == type_end

\* src/tests/test_Sequence.cc: the step lists of the test cases
TestSequences ==
    { <<T, A, C, E>>, <<T, A, C, A, E>>,
      <<T, T, A, C, A, E, C, A, E>>,
      <<T>>, <<T, T>>, <<T, A, C>>, <<T, E>>, <<T, A, C, C, E>>,
      <<I, A, E>>, <<I, A, EL, A, E>>, <<I, A, EI, A, EL, A, E>>,
      <<I, A, EI, A, EI, A, EL, A, E>>,
      <<I, A, EI, T, A, C, E, EL, A, E>>,
      <<I, A, EI, T, A, C, A, E, EL, A, E>>,
      <<I, A, EI, W, E, EL, A, E>>,
      <<E>>, <<E, A>>, <<E, T>>, <<E, C>>, <<E, I>>, <<E, EI>>, <<E, EL>>,
      <<E, W>> }

\* further step lists: constructs whose body or earlier clause is itself
\* malformed, and nestings around max_indentation_level
FurtherSequences ==
    { <<T, T, E, C, EL, E>>, <<I, EL, T, E, EL, E>>, <<I, EL, EL, EI, E>>,
      <<W, I, EL, EI, E, E>>, <<W, I, EI, EL, EL, E, E>>,
      Repeat(W, max_indentation_level - 1),
      Repeat(W, max_indentation_level) \o Repeat(E, max_indentation_level),
      Repeat(W, max_indentation_level + 1)
          \o Repeat(E, max_indentation_level + 1) }

\* step lists with a TRY construct nested in a branch or body of another
\* construct, complete or with its END left out, at a shallow level and at
\* the deepest level that max_indentation_level admits; and a nesting beyond
\* the maximum that follows an unmatched END
NestedSequences ==
    { <<I, A, EI, T, A, C, A, EL, A, E>>,
      <<E>> \o Repeat(T, max_indentation_level + 1),
      <<T, T, A, C, A, C, A, E>>,
      <<W, T, C, E, E>>,
      <<W, T, E, EL, E>>,
      Repeat(W, max_indentation_level - 1) \o <<T, A, C, A, E>>
          \o Repeat(E, max_indentation_level - 1),
      Repeat(W, max_indentation_level - 1) \o <<T, A, C, A>>
          \o Repeat(E, max_indentation_level - 1),
      Repeat(W, max_indentation_level) \o <<T, A, C, A, E>>
          \o Repeat(E, max_indentation_level) }

\* a sequence may be extended while it is short, or while it consists of a
\* deep nesting and a short tail
MayGrow(n) ==
    \/ n < MaxLen
    \/ /\ n >= max_indentation_level - 1
       /\ n < max_indentation_level - 1 + MaxTail

\* Sequence::add_step(Step{ type })
AddStep(type) ==
    /\ pc = "idle"
    /\ MayGrow(Len(steps_))
    /\ steps_' = Append(steps_, Step(type))
    /\ indented' = FALSE
    /\ result' = [status |-> "not_run", what |-> EmptyString]
    /\ UNCHANGED <<indentation_error_, pc, step_index, level, prior_error>>

---------------------------------------------------------------------------
(* Specification *)

\* a sequence right after construction (no steps), or after its owner has
\* filled it with one of the step lists above; no pass of indent() has run,
\* so every step still has level 0 and no error is recorded
Init ==
    /\ steps_ \in {StepsOf(types) :
                     types \in {<<>>} \cup TestSequences \cup FurtherSequences
                                 \cup NestedSequences}
    /\ indentation_error_ = EmptyString
    /\ pc = "idle"
    /\ step_index = 1
    /\ level = 0
    /\ result = [status |-> "not_run", what |-> EmptyString]
    /\ indented = FALSE
    /\ prior_error = EmptyString

Next ==
    \/ \E type \in StepTypes : AddStep(type)
    \/ IndentBegin
    \/ IndentStep
    \/ IndentEnd
    \/ CheckSyntax

Spec == Init /\ [][Next]_vars

\* check_syntax(begin, end) as a function of the types and the levels of the
\* steps alone: every sequence of at most MaxFree steps, each step with any
\* type and any level up to MaxFreeLevel, whether or not indent() can
\* produce these levels
MaxFree == 3

MaxFreeLevel == 2

FreeSteps(n) == [1..n -> [type : StepTypes, indentation_level : 0..MaxFreeLevel]]

InitLevels ==
    /\ \E n \in 0..MaxFree : steps_ \in FreeSteps(n)
    /\ indentation_error_ = EmptyString
    /\ pc = "idle"
    /\ step_index = 1
    /\ level = 0
    /\ result = [status |-> "not_run", what |-> EmptyString]
    /\ indented = FALSE
    /\ prior_error = EmptyString

NextLevels == CheckSyntax

SpecLevels == InitLevels /\ [][NextLevels]_vars

TypeOK ==
    /\ pc \in {"idle", "indent", "terminated"}
    /\ \A k \in 1..Len(steps_) : steps_[k].type \in StepTypes
    /\ result.status \in {"not_run", "returned", "thrown"}
    /\ indented \in BOOLEAN

---------------------------------------------------------------------------
(* Properties *)

Openers == {type_if, type_try, type_while}

Clauses == {type_catch, type_else, type_elseif}

\* indent() has run to completion on the current steps
AfterIndent == pc = "idle" /\ indented

\* indent() and then check_syntax() have run on the current steps
Validated == AfterIndent /\ result.status # "not_run"

\* number of IF/TRY/WHILE steps before position k that no END before k closes
Unclosed(types, k) ==
    Cardinality({j \in 1..(k - 1) : types[j] \in Openers})
        - Cardinality({j \in 1..(k - 1) : types[j] = type_end})

NestingWithinMax(types) ==
    \A k \in 1..(Len(types) + 1) : Unclosed(types, k) <= max_indentation_level

(* The grammar
     body       := (action | if_stmt | while_stmt | try_stmt)*
     if_stmt    := IF body (ELSEIF body)* (ELSE body)? END
     while_stmt := WHILE body END
     try_stmt   := TRY body CATCH body END
   read as a predictive parser over the step types alone.  GrammarBody gives
   the position after the longest body that starts at k, or 0 if a construct
   that starts inside it cannot be completed. *)
RECURSIVE GrammarBody(_, _)
RECURSIVE GrammarIfTail(_, _, _)

Expect(types, p, type) == p # 0 /\ p <= Len(types) /\ types[p] = type

GrammarBody(types, k) ==
    IF k > Len(types) THEN k
    ELSE CASE types[k] = type_action -> GrammarBody(types, k + 1)
           [] types[k] = type_while ->
                LET p == GrammarBody(types, k + 1)
                IN  IF Expect(types, p, type_end)
                    THEN GrammarBody(types, p + 1) ELSE 0
           [] types[k] = type_try ->
                LET p == GrammarBody(types, k + 1)
                IN  IF Expect(types, p, type_catch)
                    THEN LET q == GrammarBody(types, p + 1)
                         IN  IF Expect(types, q, type_end)
                             THEN GrammarBody(types, q + 1) ELSE 0
                    ELSE 0
           [] types[k] = type_if ->
                LET p == GrammarIfTail(types, GrammarBody(types, k + 1), FALSE)
                IN  IF p # 0 THEN GrammarBody(types, p) ELSE 0
           [] OTHER -> k

GrammarIfTail(types, p, else_seen) ==
    IF p = 0 \/ p > Len(types) THEN 0
    ELSE CASE types[p] = type_elseif /\ ~else_seen ->
                GrammarIfTail(types, GrammarBody(types, p + 1), FALSE)
           [] types[p] = type_else /\ ~else_seen ->
                GrammarIfTail(types, GrammarBody(types, p + 1), TRUE)
           [] types[p] = type_end -> p + 1
           [] OTHER -> 0

Derivable(types) == GrammarBody(types, 1) = Len(types) + 1

TableLevel(types, k) ==
    IF types[k] \in Clauses \cup {type_end}
    THEN Unclosed(types, k) - 1
    ELSE Unclosed(types, k)

\* the steps strictly inside the block that opener p starts: the steps after
\* p and before the first CATCH/ELSE/ELSEIF/END that belongs to p
BlockOf(types, p) ==
    LET closers == {q \in (p + 1)..Len(types) :
                      /\ types[q] \in Clauses \cup {type_end}
                      /\ Unclosed(types, q) = Unclosed(types, p) + 1}
    IN  {k \in (p + 1)..Len(types) : \A q \in closers : k < q}

\* C2: after indent() without a recorded error, every step has the level of
\* the table (IF/TRY/WHILE and ACTION: the number of unclosed openers before
\* it; CATCH/ELSE/ELSEIF/END: that number minus one), every step strictly
\* inside a block is at least one level deeper than the opener of the block,
\* TRY,ACTION,CATCH,END gets 0,1,0,0 and TRY,ACTION,CATCH,ACTION,END gets
\* 0,1,0,1,0.
C2_LevelsFollowTable ==
    LET types == TypesOf(steps_)
        levels == LevelsOf(steps_)
    IN  /\ (AfterIndent /\ indentation_error_ = EmptyString) =>
              /\ \A k \in 1..Len(types) : levels[k] = TableLevel(types, k)
              /\ \A p \in 1..Len(types) :
                    types[p] \in Openers =>
                        \A k \in BlockOf(types, p) : levels[k] >= levels[p] + 1
        /\ (AfterIndent /\ types = <<T, A, C, E>>) =>
              (indentation_error_ = EmptyString /\ levels = <<0, 1, 0, 0>>)
        /\ (AfterIndent /\ types = <<T, A, C, A, E>>) =>
              (indentation_error_ = EmptyString /\ levels = <<0, 1, 0, 1, 0>>)

\* C2 witness: indent() has run without error on an IF with a TRY nested in
\* one of its branches
C2_Witness ==
    /\ AfterIndent
    /\ indentation_error_ = EmptyString
    /\ TypesOf(steps_) = <<I, A, EI, T, A, C, A, E, EL, A, E>>
    /\ LevelsOf(steps_) = <<0, 1, 0, 1, 2, 1, 2, 1, 0, 1, 0>>

\* C3: indent() never fails: set_indentation_level() never sees a level
\* outside 0..max_indentation_level, the depth counter stays in that range in
\* every intermediate and final state, every step holds a level in that
\* range, and a completed pass has gone through all steps.
C3_IndentNeverFails ==
    /\ pc # "terminated"
    /\ level \in 0..max_indentation_level
    /\ \A k \in 1..Len(steps_) :
          steps_[k].indentation_level \in 0..max_indentation_level
    /\ pc = "indent" => step_index \in 1..(Len(steps_) + 1)
    /\ AfterIndent => step_index = Len(steps_) + 1

\* C3 witness: a pass went on after the depth was clamped at the maximum and
\* the error was recorded; the step processed at the maximum has its level
C3_Witness ==
    /\ AfterIndent
    /\ indentation_error_ = MsgTooDeep
    /\ Len(steps_) > max_indentation_level
    /\ steps_[max_indentation_level + 1].indentation_level
           = max_indentation_level
    /\ steps_[Len(steps_)].type = type_end

\* the outcome of a call as CheckSyntax stores it
Outcome(r) ==
    IF r.ok THEN [status |-> "returned", what |-> EmptyString]
    ELSE [status |-> "thrown", what |-> r.what]

IndentationMessages == {MsgNotNested, MsgEveryEnd, MsgTooDeep, MsgOneEnd}

\* an error text that starts with the "[syntax check] Step " prefix
HasSyntaxPrefix(what) == Len(what) > 0 /\ what[1] = "[syntax check] Step "

\* C4: when the last indent() left an indentation error, check_syntax()
\* throws exactly that message, which carries no "[syntax check]" prefix and
\* no step position, whatever the recursive check would find; the outcome of
\* the recursive check over all steps is the outcome of check_syntax() only
\* when the recorded error is empty.
C4_IndentationErrorShortCircuits ==
    (pc = "idle" /\ result.status # "not_run") =>
        IF indentation_error_ # EmptyString
        THEN /\ result = [status |-> "thrown", what |-> indentation_error_]
             /\ result.what \in IndentationMessages
             /\ ~HasSyntaxPrefix(result.what)
        ELSE result = Outcome(check_syntax_range(1, Len(steps_) + 1))

\* C4 witness: check_syntax() threw the recorded indentation error on steps
\* that the recursive check by itself would accept
C4_Witness ==
    /\ pc = "idle"
    /\ indentation_error_ = MsgOneEnd
    /\ result = [status |-> "thrown", what |-> MsgOneEnd]
    /\ check_syntax_range(1, Len(steps_) + 1).ok
    /\ TypesOf(steps_) = <<T, C, E>>

\* one more step of a running pass is about to be processed
InPass == pc = "indent"

\* C5: during a pass of indent() a recorded error is never replaced (neither
\* by a later loop iteration nor by the test of the final depth), within one
\* iteration the negative step level is recorded before the negative depth,
\* and the loop goes on to the next step with the error recorded.
C5_FirstErrorWins ==
    [][ InPass =>
          /\ (indentation_error_ # EmptyString
                => indentation_error_' = indentation_error_)
          /\ ((/\ indentation_error_ = EmptyString
               /\ step_index <= Len(steps_)
               /\ StepLevelFor(steps_[step_index].type, level) < 0)
                => indentation_error_' = MsgNotNested)
          /\ (step_index <= Len(steps_)
                => /\ pc' = "indent"
                   /\ step_index' = step_index + 1
                   /\ steps_'[step_index].indentation_level
                          \in 0..max_indentation_level)
          /\ (step_index > Len(steps_) => pc' = "idle") ]_vars

\* C5 witness: after END, END, WHILE the pass has met a negative level and a
\* negative depth twice and a non-zero final depth; the first message stands
C5_Witness ==
    /\ AfterIndent
    /\ TypesOf(steps_) = <<E, E, W>>
    /\ level = 1
    /\ indentation_error_ = MsgNotNested

\* C6: a pass that records no error has seen as many END steps as
\* IF/WHILE/TRY steps and ends with depth 0; a pass that reaches its end with
\* a non-zero depth and no error records the "one END for each IF, TRY,
\* WHILE" message; TRY alone, TRY,TRY and TRY,ACTION,CATCH make
\* check_syntax() throw.
C6_BalancedOrMissingEnd ==
    /\ [](LET types == TypesOf(steps_)
          IN  /\ (AfterIndent /\ indentation_error_ = EmptyString) =>
                    /\ Cardinality({k \in 1..Len(types) : types[k] = type_end})
                         = Cardinality({k \in 1..Len(types) :
                                          types[k] \in Openers})
                    /\ level = 0
              /\ (Validated /\ types \in {<<T>>, <<T, T>>, <<T, A, C>>}) =>
                    result = [status |-> "thrown", what |-> MsgOneEnd])
    /\ [][ (/\ InPass
            /\ step_index > Len(steps_)
            /\ level # 0
            /\ indentation_error_ = EmptyString)
              => indentation_error_' = MsgOneEnd ]_vars

\* C6 witness: TRY,ACTION,CATCH was validated and rejected for its missing END
C6_Witness ==
    /\ Validated
    /\ TypesOf(steps_) = <<T, A, C>>
    /\ level = 1
    /\ result = [status |-> "thrown", what |-> MsgOneEnd]

\* indent() as a function of the step types alone: the levels and the error
\* after processing the first k types, starting from depth 0 and no error
RECURSIVE IndentOf(_, _)

IndentOf(types, k) ==
    IF k = 0 THEN [levels |-> <<>>, depth |-> 0, err |-> EmptyString]
    ELSE LET before == IndentOf(types, k - 1)
             raw_step_level == StepLevelFor(types[k], before.depth)
             raw_level == LevelAfter(types[k], before.depth)
         IN  [levels |-> Append(before.levels, ClampStepLevel(raw_step_level)),
              depth |-> ClampLevel(raw_level),
              err |-> ErrorAfterLevel(
                          raw_level,
                          ErrorAfterStepLevel(raw_step_level, before.err))]

\* C7: the levels and the error after indent() are a function of the step
\* types alone, whatever levels and error were there before; a second pass
\* over unchanged steps changes no level and ends with the error of the first
\* pass; an error of an earlier pass is gone after a pass over a sequence
\* that is well nested.
C7_IndentIdempotent ==
    /\ [](LET types == TypesOf(steps_)
              pass == IndentOf(types, Len(types))
          IN  AfterIndent =>
                /\ LevelsOf(steps_) = pass.levels
                /\ indentation_error_ = ErrorAfterLoop(pass.depth, pass.err)
                /\ (Derivable(types) /\ NestingWithinMax(types)
                      => indentation_error_ = EmptyString))
    /\ [][ (InPass /\ indented) =>
              /\ LevelsOf(steps_') = LevelsOf(steps_)
              /\ (pc' = "idle" => indentation_error_' = prior_error) ]_vars

\* C7 witness: a pass over a well-nested sequence has ended without error
\* although the sequence carried levels and an error of an earlier pass
C7_Witness ==
    /\ AfterIndent
    /\ prior_error = MsgOneEnd
    /\ indentation_error_ = EmptyString
    /\ TypesOf(steps_) = <<T, A, C, E>>
    /\ LevelsOf(steps_) = <<0, 1, 0, 0>>

\* the Error a syntax error at 1-based step position `pos` is expected to be
ErrorAt(pos, msg) == Thrown(<<"[syntax check] Step ", pos, ": ", msg>>)

WithoutMatchingMessages ==
    {"CATCH without matching TRY", "ELSE IF without matching IF",
     "ELSE without matching IF", "END without matching IF/WHILE/TRY",
     "WHILE without matching END", "TRY without matching CATCH",
     "TRY...CATCH without matching END", "IF without matching END"}

\* END alone, and END followed by one step of another type
EndFirstSequences ==
    {<<E>>} \cup {<<E, type>> : type \in StepTypes \ {type_end}}

\* C8 as stated: validating END or END,X fails with a "without matching"
\* message reported at step position 1 or 2.
C8_Original ==
    (Validated /\ TypesOf(steps_) \in EndFirstSequences) =>
        /\ result.status = "thrown"
        /\ HasSyntaxPrefix(result.what)
        /\ result.what[2] \in {1, 2}
        /\ result.what[4] \in WithoutMatchingMessages

\* C8 amended: validating END or END,X (X any other step type) always fails,
\* and the error raised is the indentation error "Steps are not nested
\* correctly" recorded by indent() for the END at depth 0; it carries no step
\* position and no "without matching" text.
C8_EndFirstFailsOnIndentation ==
    (Validated /\ TypesOf(steps_) \in EndFirstSequences) =>
        /\ result = [status |-> "thrown", what |-> MsgNotNested]
        /\ ~HasSyntaxPrefix(result.what)

\* C8 witness: END, ELSE IF has been validated and rejected
C8_Witness ==
    /\ Validated
    /\ TypesOf(steps_) = <<E, EI>>
    /\ result.status = "thrown"

\* the first step in [from, end) whose level is at most lvl; 0 if none
FirstAtOrBelow(from, end, lvl) ==
    LET found == {j \in from..(end - 1) : steps_[j].indentation_level <= lvl}
    IN  IF found = {} THEN 0 ELSE CHOOSE j \in found : \A k \in found : j <= k

\* the positions of TRY steps, each with the ends of the ranges it can be
\* checked in
TryCalls ==
    {<<b, e>> \in (1..Len(steps_)) \X (1..(Len(steps_) + 1)) :
        steps_[b].type = type_try /\ b < e}

\* C9 as stated, for check_syntax_for_try(b, e) after indent(): a missing CATCH boundary
\* gives "TRY without matching CATCH", otherwise a missing END boundary gives
\* "TRY...CATCH without matching END", both at the position of the TRY.
C9_Original ==
    (AfterIndent /\ indentation_error_ = EmptyString) =>
        \A call \in TryCalls :
            LET b == call[1]
                e == call[2]
                lvl == steps_[b].indentation_level
                c == FirstAtOrBelow(b + 1, e, lvl)
                d == FirstAtOrBelow(c + 1, e, lvl)
            IN  IF c = 0 \/ steps_[c].type # type_catch
                THEN check_syntax_for_try(b, e)
                         = ErrorAt(b, "TRY without matching CATCH")
                ELSE (d = 0 \/ steps_[d].type # type_end) =>
                         check_syntax_for_try(b, e)
                             = ErrorAt(b, "TRY...CATCH without matching END")

\* C9 amended: a missing CATCH boundary gives "TRY without matching CATCH" at
\* the TRY; otherwise the block between TRY and CATCH is checked first and an
\* error in it is the error raised; if that block is valid, a missing END
\* boundary gives "TRY...CATCH without matching END" at the TRY.  TRY,END and
\* TRY,ACTION,CATCH,CATCH,END are rejected with these two errors at step 1.
C9_TryBoundaries ==
    /\ (pc = "idle" /\ indentation_error_ = EmptyString) =>
        \A call \in TryCalls :
            LET b == call[1]
                e == call[2]
                lvl == steps_[b].indentation_level
                c == FirstAtOrBelow(b + 1, e, lvl)
                d == FirstAtOrBelow(c + 1, e, lvl)
            IN  IF c = 0 \/ steps_[c].type # type_catch
                THEN check_syntax_for_try(b, e)
                         = ErrorAt(b, "TRY without matching CATCH")
                ELSE (d = 0 \/ steps_[d].type # type_end) =>
                         IF check_syntax_range(b + 1, c).ok
                         THEN check_syntax_for_try(b, e)
                                = ErrorAt(b, "TRY...CATCH without matching END")
                         ELSE check_syntax_for_try(b, e)
                                = check_syntax_range(b + 1, c)
    /\ (Validated /\ TypesOf(steps_) = <<T, E>>) =>
          result = Outcome(ErrorAt(1, "TRY without matching CATCH"))
    /\ (Validated /\ TypesOf(steps_) = <<T, A, C, C, E>>) =>
          result = Outcome(ErrorAt(1, "TRY...CATCH without matching END"))

\* C9 witness: TRY,ACTION,CATCH,CATCH,END was validated and rejected at the
\* TRY for the second CATCH that stands where the END must be
C9_Witness ==
    /\ Validated
    /\ TypesOf(steps_) = <<T, A, C, C, E>>
    /\ result = Outcome(ErrorAt(1, "TRY...CATCH without matching END"))

\* the positions of IF steps, each with the ends of the ranges it can be
\* checked in
IfCalls ==
    {<<b, e>> \in (1..Len(steps_)) \X (1..(Len(steps_) + 1)) :
        steps_[b].type = type_if /\ b < e}

\* the steps after the IF at b, inside [b, e), at the level of the IF
IfBoundaries(b, e) ==
    {j \in (b + 1)..(e - 1) :
        steps_[j].indentation_level <= steps_[b].indentation_level}

\* the first boundary that is neither ELSE IF nor ELSE; 0 if none
IfTerminator(b, e) ==
    LET found == {j \in IfBoundaries(b, e) :
                    steps_[j].type \notin {type_elseif, type_else}}
    IN  IF found = {} THEN 0 ELSE CHOOSE j \in found : \A k \in found : j <= k

\* the ELSE IF and ELSE clauses of the IF at b
IfClauses(b, e) ==
    {j \in IfBoundaries(b, e) :
        /\ steps_[j].type \in {type_elseif, type_else}
        /\ (IfTerminator(b, e) = 0 \/ j < IfTerminator(b, e))}

\* clause j comes after an ELSE clause of the same IF
AfterElse(b, e, j) ==
    \E k \in IfClauses(b, e) : k < j /\ steps_[k].type = type_else

MisplacedClauses(b, e) == {j \in IfClauses(b, e) : AfterElse(b, e, j)}

ClauseMessage(j) ==
    IF steps_[j].type = type_elseif
    THEN "ELSE IF after ELSE clause"
    ELSE "Duplicate ELSE clause"

\* the outcome of checking the block that ends at boundary j of the IF at b
BlockBefore(b, e, j) ==
    LET earlier == {b} \cup {k \in IfBoundaries(b, e) : k < j}
        from == CHOOSE k \in earlier : \A m \in earlier : m <= k
    IN  check_syntax_range(from + 1, j)

\* the boundaries up to j whose block does not pass the check
BadBlocksUpTo(b, e, j) ==
    {k \in IfBoundaries(b, e) : k <= j /\ ~BlockBefore(b, e, k).ok}

Minimum(S) == CHOOSE j \in S : \A k \in S : j <= k

\* any number of ELSE IF clauses before one optional ELSE, closed by END and
\* with valid blocks, is accepted
IfAccepted(b, e) ==
    (/\ MisplacedClauses(b, e) = {}
     /\ IfTerminator(b, e) # 0
     /\ steps_[IfTerminator(b, e)].type = type_end
     /\ BadBlocksUpTo(b, e, IfTerminator(b, e)) = {})
        => check_syntax_for_if(b, e) = Returned(IfTerminator(b, e) + 1)

\* C10 as stated, for check_syntax_for_if(b, e) after indent(): every ELSE IF after an ELSE
\* gives "ELSE IF after ELSE clause" at that ELSE IF, every second ELSE gives
\* "Duplicate ELSE clause" at that ELSE.
C10_Original ==
    (AfterIndent /\ indentation_error_ = EmptyString) =>
        \A call \in IfCalls :
            LET b == call[1]
                e == call[2]
            IN  /\ \A j \in MisplacedClauses(b, e) :
                      check_syntax_for_if(b, e) = ErrorAt(j, ClauseMessage(j))
                /\ IfAccepted(b, e)

\* C10 amended: the first clause (in step order) of an IF that is an ELSE IF
\* after an ELSE, or a second ELSE, gives "ELSE IF after ELSE clause" resp.
\* "Duplicate ELSE clause" at the position of that clause, provided the
\* blocks before it pass the check; otherwise the error of the first block
\* that fails is raised.  Later misplaced clauses are not reported.  Any
\* number of ELSE IF before one optional ELSE is accepted.  The same holds
\* for an IF nested in another block.
C10_IfClauses ==
    (pc = "idle" /\ indentation_error_ = EmptyString) =>
        \A call \in IfCalls :
            LET b == call[1]
                e == call[2]
                misplaced == MisplacedClauses(b, e)
            IN  /\ misplaced # {} =>
                      LET j == Minimum(misplaced)
                          bad == BadBlocksUpTo(b, e, j)
                      IN  IF bad = {}
                          THEN check_syntax_for_if(b, e)
                                 = ErrorAt(j, ClauseMessage(j))
                          ELSE check_syntax_for_if(b, e)
                                 = BlockBefore(b, e, Minimum(bad))
                /\ IfAccepted(b, e)

\* C10 witness: an IF nested in a WHILE with ELSE IF after ELSE was validated
\* and rejected at the ELSE IF, step 4 of the whole sequence
C10_Witness ==
    /\ Validated
    /\ TypesOf(steps_) = <<W, I, EL, EI, E, E>>
    /\ result = Outcome(ErrorAt(4, "ELSE IF after ELSE clause"))

\* the steps s..t of a type sequence
Slice(types, s, t) == SubSeq(types, s, t)

\* the type sequence without its steps s..t
Without(types, s, t) ==
    SubSeq(types, 1, s - 1) \o SubSeq(types, t + 1, Len(types))

\* a type sequence that is one complete TRY ... CATCH ... END construct: it
\* is derivable, starts with TRY and is closed only by its last step
CompleteTry(types) ==
    /\ Len(types) >= 3
    /\ types[1] = type_try
    /\ types[Len(types)] = type_end
    /\ Derivable(types)
    /\ \A k \in 2..Len(types) : Unclosed(types, k) >= 1

\* the ranges s..t of the steps that hold a complete TRY construct inside a
\* branch or body of an enclosing construct, the surroundings being well
\* formed
InnerTryRanges(types) ==
    {r \in (1..Len(types)) \X (1..Len(types)) :
        /\ r[1] < r[2]
        /\ types[r[1]] = type_try
        /\ Unclosed(types, r[1]) >= 1
        /\ CompleteTry(Slice(types, r[1], r[2]))
        /\ Derivable(Without(types, r[1], r[2]))}

\* the same, for a TRY construct that lacks only its END
InnerTryWithoutEndRanges(types) ==
    {r \in (1..Len(types)) \X (1..Len(types)) :
        /\ r[1] < r[2]
        /\ types[r[1]] = type_try
        /\ Unclosed(types, r[1]) >= 1
        /\ CompleteTry(Append(Slice(types, r[1], r[2]), type_end))
        /\ Derivable(Without(types, r[1], r[2]))}

C12_EmptyCatchInBranchRejected ==
    (Validated /\ TypesOf(steps_) = <<I, A, EI, T, A, C, E, EL, A, E>>)
        => result.status = "thrown"

\* C13: when a pass of indent() processes an END step at depth 0 with no
\* error recorded so far, the depth stays 0 and the error recorded is the
\* "every END must correspond to one IF, TRY, or WHILE" message, which is
\* not the plain message recorded for CATCH/ELSE/ELSEIF at depth 0.
C13_EndAtDepthZeroMessage ==
    [][ (/\ InPass
         /\ step_index <= Len(steps_)
         /\ steps_[step_index].type = type_end
         /\ level = 0
         /\ indentation_error_ = EmptyString)
          => (/\ level' = 0
              /\ indentation_error_' = MsgEveryEnd
              /\ MsgEveryEnd # MsgNotNested) ]_vars

\* the largest number of unclosed openers at any point of a type sequence
DeepestNesting(types) ==
    LET counts == {Unclosed(types, k) : k \in 1..(Len(types) + 1)}
    IN  CHOOSE n \in counts : \A m \in counts : m <= n

\* C14: an IF/TRY/WHILE processed by indent() at depth max_indentation_level
\* leaves the depth at the maximum and, if no error was recorded before,
\* records "Steps are nested too deeply (max. level: 20)"; check_syntax()
\* then rejects the sequence with that message even if it is well formed; a
\* well-formed sequence whose nesting reaches the maximum exactly records no
\* error and is accepted.
C14_TooDeep ==
    /\ [][ (/\ InPass
            /\ step_index <= Len(steps_)
            /\ steps_[step_index].type \in Openers
            /\ level = max_indentation_level)
              => /\ level' = max_indentation_level
                 /\ indentation_error_' =
                       IF indentation_error_ = EmptyString
                       THEN MsgTooDeep ELSE indentation_error_ ]_vars
    /\ [](LET types == TypesOf(steps_)
          IN  /\ (/\ Validated
                  /\ Derivable(types)
                  /\ DeepestNesting(types) > max_indentation_level)
                    => /\ indentation_error_ = MsgTooDeep
                       /\ result = [status |-> "thrown", what |-> MsgTooDeep]
                       /\ MsgTooDeep[2] = 20
              /\ (/\ Validated
                  /\ Derivable(types)
                  /\ DeepestNesting(types) = max_indentation_level)
                    => /\ indentation_error_ = EmptyString
                       /\ result.status = "returned"
                       /\ \E k \in 1..Len(types) :
                             /\ types[k] \in Openers
                             /\ steps_[k].indentation_level
                                   = max_indentation_level - 1)

\* C14 witness: max_indentation_level + 1 nested WHILE constructs, all
\* closed, have been validated and rejected as nested too deeply
C14_Witness ==
    /\ Validated
    /\ TypesOf(steps_) =
          Repeat(W, max_indentation_level + 1)
              \o Repeat(E, max_indentation_level + 1)
    /\ level = 0
    /\ result = [status |-> "thrown", what |-> MsgTooDeep]

\* the positions of WHILE steps, each with the ends of the ranges it can be
\* checked in
WhileCalls ==
    {<<b, e>> \in (1..Len(steps_)) \X (1..(Len(steps_) + 1)) :
        steps_[b].type = type_while /\ b < e}

\* C15: for check_syntax_for_while(b, e) with no indentation error: if the
\* first later step of the range at the level of the WHILE or below is
\* missing or is not an END, the error is "WHILE without matching END" at the
\* position of the WHILE, whatever the body holds; otherwise the body is
\* checked, its error is the error raised, and if it is valid the call
\* returns the position after the END.
C15_WhileBoundary ==
    (pc = "idle" /\ indentation_error_ = EmptyString) =>
        \A call \in WhileCalls :
            LET b == call[1]
                e == call[2]
                c == FirstAtOrBelow(b + 1, e, steps_[b].indentation_level)
            IN  IF c = 0 \/ steps_[c].type # type_end
                THEN check_syntax_for_while(b, e)
                         = ErrorAt(b, "WHILE without matching END")
                ELSE IF check_syntax_range(b + 1, c).ok
                THEN check_syntax_for_while(b, e) = Returned(c + 1)
                ELSE check_syntax_for_while(b, e)
                         = check_syntax_range(b + 1, c)

\* C15 witness: WHILE,TRY,END,ELSE,END was validated; the WHILE is reported
\* at step 1 although its body TRY,END is itself malformed
C15_Witness ==
    /\ Validated
    /\ TypesOf(steps_) = <<W, T, E, EL, E>>
    /\ ~check_syntax_range(2, 4).ok
    /\ result = Outcome(ErrorAt(1, "WHILE without matching END"))

\* the ranges check_syntax_for_while(b, e) passes to check_syntax(begin, end)
WhileSubRanges(b, e) ==
    {<<b + 1, find_end_of_indented_block(
                  b + 1, e, steps_[b].indentation_level + 1)>>}

\* the ranges check_syntax_for_try(b, e) passes on, the second one only if a
\* boundary of the TRY block was found
TrySubRanges(b, e) ==
    LET c == find_end_of_indented_block(
                 b + 1, e, steps_[b].indentation_level + 1)
    IN  {<<b + 1, c>>}
        \cup (IF c < e
              THEN {<<c + 1, find_end_of_indented_block(
                                 c + 1, e, steps_[b].indentation_level + 1)>>}
              ELSE {})

RECURSIVE IfIterations(_, _, _)
\* the iterations of the loop of check_syntax_for_if(b, e) from
\* it_block_statement on, each as <<it_block_statement, it>>, with the loop
\* taken to continue at every ELSE IF and ELSE
IfIterations(b, e, it_block_statement) ==
    LET it == find_end_of_indented_block(
                  it_block_statement + 1, e, steps_[b].indentation_level + 1)
    IN  IF it < e /\ it > it_block_statement
           /\ steps_[it].type \in {type_elseif, type_else}
        THEN {<<it_block_statement, it>>} \cup IfIterations(b, e, it)
        ELSE {<<it_block_statement, it>>}

\* the helper check_syntax(begin, end) calls for an opener at b
OpenerCheck(b, e) ==
    CASE steps_[b].type = type_while -> check_syntax_for_while(b, e)
      [] steps_[b].type = type_try -> check_syntax_for_try(b, e)
      [] steps_[b].type = type_if -> check_syntax_for_if(b, e)

\* the ranges the helper for the opener at b checks recursively
OpenerSubRanges(b, e) ==
    CASE steps_[b].type = type_while -> WhileSubRanges(b, e)
      [] steps_[b].type = type_try -> TrySubRanges(b, e)
      [] steps_[b].type = type_if ->
           {<<i[1] + 1, i[2]>> : i \in IfIterations(b, e, b)}

\* C16: whatever the levels of the steps, for every opener b and every end e
\* of a range: the helper called on (b, e) throws or returns a position
\* after b and not after e; every range it checks recursively begins after
\* b, does not end after e and is not reversed; every iteration of the loop
\* over the clauses of an IF finds its boundary after the clause it started
\* from; and check_syntax(b, e) throws or stops exactly at e.
C16_Progress ==
    pc = "idle" =>
        \A b \in 1..Len(steps_) : \A e \in (b + 1)..(Len(steps_) + 1) :
            /\ steps_[b].type \in Openers =>
                 /\ OpenerCheck(b, e).ok =>
                        (b < OpenerCheck(b, e).next
                         /\ OpenerCheck(b, e).next <= e)
                 /\ \A sub \in OpenerSubRanges(b, e) :
                        b < sub[1] /\ sub[1] <= sub[2] /\ sub[2] <= e
            /\ steps_[b].type = type_if =>
                 \A i \in IfIterations(b, e, b) : i[1] < i[2] /\ i[2] <= e
            /\ check_syntax_range(b, e).ok =>
                 check_syntax_range(b, e).next = e

\* C16 witness: IF,ELSE,END with the levels 1,0,1, which indent() never
\* assigns, was checked: the loop over the clauses ran twice and the check
\* returned
C16_Witness ==
    /\ TypesOf(steps_) = <<I, EL, E>>
    /\ LevelsOf(steps_) = <<1, 0, 1>>
    /\ IfIterations(1, 4, 1) = {<<1, 2>>, <<2, 3>>}
    /\ check_syntax_for_if(1, 4) = Returned(4)
    /\ result.status = "returned"

\* the messages of the errors check_syntax_for_while, check_syntax_for_try
\* and check_syntax_for_if raise about the boundary of a block they found,
\* each with the types of the steps it is attributed to after an error-free
\* indent()
BoundaryErrors ==
    { <<"WHILE without matching END", {type_while}>>,
      <<"TRY without matching CATCH", {type_try}>>,
      <<"TRY...CATCH without matching END", {type_try}>>,
      <<"ELSE IF after ELSE clause", {type_elseif}>>,
      <<"Duplicate ELSE clause", {type_else}>>,
      <<"Unfinished IF construct", {type_catch}>> }

\* the messages the claim excludes
BareCloserMessages ==
    { "CATCH without matching TRY", "ELSE IF without matching IF",
      "ELSE without matching IF", "END without matching IF/WHILE/TRY",
      "IF without matching END" }

\* C17: when indent() has run on the current steps and recorded no error,
\* the recursive check returns or throws one of the boundary errors of WHILE,
\* TRY and IF, attributed to a step of the fitting type; it throws none of
\* the four "... without matching" errors of a bare CATCH, ELSE IF, ELSE or
\* END, nor "IF without matching END".
C17_OnlyBoundaryErrors ==
    (AfterIndent /\ indentation_error_ = EmptyString) =>
        /\ check_syntax.ok
           \/ \E pos \in 1..Len(steps_) : \E err \in BoundaryErrors :
                  /\ check_syntax = ErrorAt(pos, err[1])
                  /\ steps_[pos].type \in err[2]
        /\ \A pos \in 1..Len(steps_) : \A msg \in BareCloserMessages :
               check_syntax # ErrorAt(pos, msg)
        /\ Validated => result = Outcome(check_syntax)

\* C17 witness: WHILE,CATCH,END passed indent() without error and was
\* validated; the CATCH, which belongs to no TRY, is met as the boundary of
\* the WHILE and the error is the one of the WHILE
C17_Witness ==
    /\ Validated
    /\ indentation_error_ = EmptyString
    /\ TypesOf(steps_) = <<W, C, E>>
    /\ result = Outcome(ErrorAt(1, "WHILE without matching END"))

====
